---- MODULE Spec2Model ----
(***************************************************************************)
(* Appointment lifecycle engine of the pharmacy delivery assistant:        *)
(* the Excel record store (ExcelService), the business-hours validator     *)
(* (TimeService), the agent tools that create / update / soft-cancel, and  *)
(* the deterministic cancel-by-name chat flow (_handle_cancel_flow).       *)
(*                                                                         *)
(* Texts are tuples of one-character strings, so that strip(), lower(),    *)
(* accent folding and length checks are computed, not assumed.  A blank    *)
(* cell (pandas NaN) is the tuple NaN.  A date text is a record            *)
(* [w, y, m, d]: w = "iso" for a YYYY-MM-DD text, otherwise a word.        *)
(***************************************************************************)
EXTENDS Integers, Sequences, FiniteSets, TLC

VARIABLES
    store,                \* rows of the canonical workbook, in file order
    uuidCount,            \* number of uuid4() values drawn so far
    now,                  \* the ambient datetime.now(): [date, h, m, s]
    cancel_flow_active,   \* st.session_state.cancel_flow_active
    cancel_candidates,    \* st.session_state.cancel_candidates
    cancel_patient_name,  \* st.session_state.cancel_patient_name
    last,                 \* the last operation: its name and its outcome
    canon,                \* file level: the canonical workbook file, [state]
    tmp,                  \* file level: the staging file (.tmp.xlsx), [state, df]
    wpc,                  \* file level: where the service is in a file operation
    writers               \* file level: two processes writing, each [pc, df, fd, exc, raced]

vars == <<store, uuidCount, now, cancel_flow_active, cancel_candidates,
          cancel_patient_name, last, canon, tmp, wpc, writers>>

sessionVars == <<cancel_flow_active, cancel_candidates, cancel_patient_name>>
fileVars == <<canon, tmp, wpc, writers>>

----------------------------------------------------------------------------
(* Bounds *)

MaxRows == 2
MaxUuid == 2

----------------------------------------------------------------------------
(* Texts *)

NaN == <<"<NaN>">>
None == <<"<None>">>

IsSpace(c) == c = " "

RECURSIVE LStrip(_)
LStrip(s) == IF s # <<>> /\ IsSpace(Head(s)) THEN LStrip(Tail(s)) ELSE s

RECURSIVE RStrip(_)
RStrip(s) ==
    IF s # <<>> /\ IsSpace(s[Len(s)]) THEN RStrip(SubSeq(s, 1, Len(s) - 1)) ELSE s

\* str.strip()
Strip(s) == RStrip(LStrip(s))

\* str.lower() on one character of the model's alphabet
LowerChar(c) ==
    CASE c = "A" -> "a" [] c = "J" -> "j" [] c = "O" -> "o" [] c = "S" -> "s"
      [] c = "E" -> "e" [] c = "N" -> "n" [] c = "U" -> "u" [] c = "L" -> "l"
      [] c = "É" -> "é" [] c = "Á" -> "á" [] c = "T" -> "t" [] c = "D" -> "d"
      [] OTHER -> c

Lower(s) == [i \in 1..Len(s) |-> LowerChar(s[i])]

\* NFKD decomposition followed by dropping the combining marks
FoldChar(c) ==
    CASE c = "é" -> "e" [] c = "É" -> "E" [] c = "á" -> "a" [] c = "Á" -> "A"
      [] OTHER -> c

\* ''.join(...) without the given character: str.replace(" ", "")
RECURSIVE RemoveSpaces(_)
RemoveSpaces(s) ==
    IF s = <<>> THEN <<>>
    ELSE IF IsSpace(Head(s)) THEN RemoveSpaces(Tail(s))
         ELSE <<Head(s)>> \o RemoveSpaces(Tail(s))

\* str(x) of a cell: a blank cell prints as "nan"
AsStr(x) == IF x = NaN THEN <<"n", "a", "n">> ELSE x

normalize_name(name) ==
    IF name = <<>> \/ name = NaN THEN <<>>
    ELSE Strip(Lower([i \in 1..Len(name) |-> FoldChar(name[i])]))

\* re.search(pattern, hay) for the patterns of the model's alphabet: every
\* character stands for itself except ".", which matches any character
\* (Series.str.contains is called with its default regex=True)
RegexSearch(hay, pattern) ==
    \E i \in 0..(Len(hay) - Len(pattern)) :
        \A k \in 1..Len(pattern) : pattern[k] = "." \/ hay[i + k] = pattern[k]

----------------------------------------------------------------------------
(* Settings *)

ESTADOS == {<<"Pendiente">>, <<"Entregado">>, <<"Cancelado">>}
ESTADO_DEFAULT == <<"Pendiente">>
Cancelado == <<"Cancelado">>
Pendiente == <<"Pendiente">>
Entregado == <<"Entregado">>

ANTICIPACION_MINIMA_HORAS == 2
HORARIO_INICIO_LUNES_VIERNES == 8 * 60
HORARIO_FIN_LUNES_VIERNES == 17 * 60
HORARIO_ALMUERZO_INICIO == 12 * 60
HORARIO_ALMUERZO_FIN == 13 * 60
HORARIO_INICIO_SABADO == 8 * 60
HORARIO_FIN_SABADO == 12 * 60

----------------------------------------------------------------------------
(* Dates and times *)

Iso(y, m, d) == [w |-> "iso", y |-> y, m |-> m, d |-> d]
Word(w) == [w |-> w, y |-> 0, m |-> 0, d |-> 0]
Hm(h, m) == [h |-> h, m |-> m]

\* Python's None where a date, or a pair of opening hours, is expected
NoDate == Word("<None>")
NoHours == <<>>
NoTime == Hm(-1, -1)

IsLeap(y) == (y % 4 = 0 /\ y % 100 # 0) \/ y % 400 = 0

DaysInMonth(y, m) ==
    IF m = 2 THEN (IF IsLeap(y) THEN 29 ELSE 28)
    ELSE IF m \in {4, 6, 9, 11} THEN 30 ELSE 31

\* datetime.strptime(v, "%Y-%m-%d") succeeds
ParsesAsDate(f) ==
    /\ f.w = "iso"
    /\ f.y \in 1..9999
    /\ f.m \in 1..12
    /\ f.d \in 1..DaysInMonth(f.y, f.m)

\* datetime.strptime(v, "%H:%M") succeeds
ParsesAsTime(t) == t.h \in 0..23 /\ t.m \in 0..59

\* date.toordinal(), shifted: days since 1970-01-01
Ordinal(f) ==
    LET y1 == IF f.m <= 2 THEN f.y - 1 ELSE f.y
        era == y1 \div 400
        yoe == y1 - era * 400
        mp == (f.m + 9) % 12
        doy == (153 * mp + 2) \div 5 + f.d - 1
        doe == yoe * 365 + yoe \div 4 - yoe \div 100 + doy
    IN era * 146097 + doe - 719468

\* date.weekday(): 0 = Monday ... 6 = Sunday
Weekday(f) == (Ordinal(f) + 3) % 7

Minutes(t) == t.h * 60 + t.m

\* date + timedelta(days = n), for the few days the model needs
RECURSIVE AddDays(_, _)
AddDays(f, n) ==
    IF n = 0 THEN f
    ELSE IF f.d < DaysInMonth(f.y, f.m) THEN AddDays(Iso(f.y, f.m, f.d + 1), n - 1)
    ELSE IF f.m < 12 THEN AddDays(Iso(f.y, f.m + 1, 1), n - 1)
    ELSE AddDays(Iso(f.y + 1, 1, 1), n - 1)

parse_relative_date(f) ==
    CASE f.w \in {"hoy", "today"} -> now.date
      [] f.w \in {"mañana", "tomorrow"} -> AddDays(now.date, 1)
      [] f.w \in {"pasado mañana", "day after tomorrow"} -> AddDays(now.date, 2)
      [] OTHER -> NoDate

get_business_hours(f) ==
    IF ~ParsesAsDate(f) THEN NoHours
    ELSE IF Weekday(f) = 6 THEN NoHours
    ELSE IF Weekday(f) = 5 THEN <<HORARIO_INICIO_SABADO, HORARIO_FIN_SABADO>>
    ELSE <<HORARIO_INICIO_LUNES_VIERNES, HORARIO_FIN_LUNES_VIERNES>>

\* mutation: the lunch window starts after its first minute
is_lunch_time_late(t) ==
    /\ ParsesAsTime(t)
    /\ HORARIO_ALMUERZO_INICIO < Minutes(t)
    /\ Minutes(t) < HORARIO_ALMUERZO_FIN

is_lunch_time(t) ==
    /\ ParsesAsTime(t)
    /\ HORARIO_ALMUERZO_INICIO <= Minutes(t)
    /\ Minutes(t) < HORARIO_ALMUERZO_FIN

is_within_business_hours(f, t) ==
    LET bh == get_business_hours(f) IN
    /\ bh # NoHours
    /\ ParsesAsTime(t)
    /\ bh[1] <= Minutes(t)
    /\ Minutes(t) <= bh[2]

\* seconds from 1970-01-01 00:00:00 to the instant now, and to date f at time t
NowSeconds == Ordinal(now.date) * 86400 + now.h * 3600 + now.m * 60 + now.s
EventSeconds(f, t) == Ordinal(f) * 86400 + Minutes(t) * 60

\* mutation: the closed-day check runs before the checks against the current instant
validate_appointment_datetime_sunday_first(f, t) ==
    IF ~(ParsesAsDate(f) /\ ParsesAsTime(t)) THEN "malformed"
    ELSE IF get_business_hours(f) = NoHours THEN "sunday"
    ELSE IF Ordinal(f) < Ordinal(now.date) THEN "past_date"
    ELSE IF /\ Ordinal(f) = Ordinal(now.date)
            /\ EventSeconds(f, t) < NowSeconds + ANTICIPACION_MINIMA_HORAS * 3600
         THEN "lead_time"
    ELSE IF Weekday(f) < 5 /\ is_lunch_time(t) THEN "lunch"
    ELSE IF ~is_within_business_hours(f, t) THEN "outside_hours"
    ELSE "ok"

\* mutation: an appointment exactly the minimum lead ahead is rejected too
validate_appointment_datetime_strict_lead(f, t) ==
    IF ~(ParsesAsDate(f) /\ ParsesAsTime(t)) THEN "malformed"
    ELSE IF Ordinal(f) < Ordinal(now.date) THEN "past_date"
    ELSE IF /\ Ordinal(f) = Ordinal(now.date)
            /\ EventSeconds(f, t) <= NowSeconds + ANTICIPACION_MINIMA_HORAS * 3600
         THEN "lead_time"
    ELSE IF get_business_hours(f) = NoHours THEN "sunday"
    ELSE IF Weekday(f) < 5 /\ is_lunch_time(t) THEN "lunch"
    ELSE IF ~is_within_business_hours(f, t) THEN "outside_hours"
    ELSE "ok"

\* the reason of the rejection, or "ok"
validate_appointment_datetime(f, t) ==
    IF ~(ParsesAsDate(f) /\ ParsesAsTime(t)) THEN "malformed"
    ELSE IF Ordinal(f) < Ordinal(now.date) THEN "past_date"
    ELSE IF /\ Ordinal(f) = Ordinal(now.date)
            /\ EventSeconds(f, t) < NowSeconds + ANTICIPACION_MINIMA_HORAS * 3600
         THEN "lead_time"
    ELSE IF get_business_hours(f) = NoHours THEN "sunday"
    ELSE IF Weekday(f) < 5 /\ is_lunch_time(t) THEN "lunch"
    ELSE IF ~is_within_business_hours(f, t) THEN "outside_hours"
    ELSE "ok"

----------------------------------------------------------------------------
(* Shape validation: the PharmaEvent model *)

TIPOS_SERVICIO == {"Entrega Domicilio", "Cita Presencial"}

\* v.strip() and v.strip().lower() on the service-type texts the model uses
TipoStrip(v) ==
    CASE v = " DOMICILIO " -> "DOMICILIO"
      [] OTHER -> v

TipoKey(v) ==
    CASE v = "Entrega Domicilio" -> "entrega domicilio"
      [] v = " DOMICILIO " -> "domicilio"
      [] v = "Cita Presencial" -> "cita presencial"
      [] v = "cita" -> "cita"
      [] v = "Express" -> "express"
      [] OTHER -> v

validate_tipo_servicio(v) ==
    IF TipoKey(v) \in {"domicilio", "entrega domicilio", "entrega a domicilio"}
    THEN "Entrega Domicilio"
    ELSE IF TipoKey(v) \in {"presencial", "cita presencial", "cita"}
    THEN "Cita Presencial"
    ELSE TipoStrip(v)

\* re.match(r'^([01]?[0-9]|2[0-3]):[0-5][0-9]$', v)
validate_hora(t) == t.h \in 0..23 /\ t.m \in 0..59

\* mutation: any text passes as a status
validate_estado_any(v) == v = v

validate_estado(v) == v \in ESTADOS

\* PharmaEvent(**fields) constructs without a ValidationError
PharmaEventValid(e) ==
    /\ Len(e.paciente_id) >= 5 /\ Len(e.paciente_id) <= 20
    /\ Len(e.nombre) >= 2 /\ Len(e.nombre) <= 100
    /\ Len(e.medicamento) >= 2 /\ Len(e.medicamento) <= 200
    /\ validate_tipo_servicio(e.tipo_servicio) \in TIPOS_SERVICIO
    /\ Len(e.sede) >= 2 /\ Len(e.sede) <= 100
    /\ ParsesAsDate(e.fecha)
    /\ validate_hora(e.hora)
    /\ validate_estado(e.estado)

\* the validated event: the service type is the only field a validator rewrites
PharmaEvent(e) == [e EXCEPT !.tipo_servicio = validate_tipo_servicio(e.tipo_servicio)]

----------------------------------------------------------------------------
(* ExcelService *)

\* str(uuid.uuid4()): the n-th identifier drawn; lower case, no spaces
Digits == <<"1", "2", "3", "4", "5", "6", "7", "8", "9">>
Uuid(n) == <<"u", Digits[n]>>

NewRow(servicio_id, event) ==
    [ID_Servicio |-> servicio_id,
     Paciente_ID |-> event.paciente_id,
     Nombre_Paciente |-> event.nombre,
     Medicamento |-> event.medicamento,
     Tipo_Servicio |-> event.tipo_servicio,
     Sede |-> event.sede,
     Fecha |-> event.fecha,
     Hora |-> event.hora,
     Estado |-> event.estado]

\* What the store can do to one call: nothing, or fail its read or its write
\* with PermissionError (the workbook is open elsewhere) or another error.
Faults == {"none", "read_locked", "write_error"}

Raised(exc, why, df) == [exc |-> exc, why |-> why, df |-> df, data |-> NaN]
Returned(df, data) == [exc |-> "ok", why |-> "ok", df |-> df, data |-> data]

\* _read_dataframe raising, for a call that starts on table df
ReadFailure(fault, df) ==
    IF fault = "read_locked" THEN Raised("ExcelLockedError", "read", df)
    ELSE Raised("ExcelServiceError", "read", df)

\* _write_dataframe(new): the replace happens or the old table stays
WriteOutcome(fault, old, new, data) ==
    IF fault = "write_locked" THEN Raised("ExcelLockedError", "write", old)
    ELSE IF fault = "write_error" THEN Raised("ExcelServiceError", "write", old)
    ELSE Returned(new, data)

\* mutation: the write holds the new row alone (the concat with the table read is lost)
add_pharma_event_overwrite(df, event, servicio_id, fault) ==
    IF fault \in {"read_locked", "read_error"} THEN ReadFailure(fault, df)
    ELSE WriteOutcome(fault, df, <<NewRow(servicio_id, event)>>,
                      NewRow(servicio_id, event))

\* mutation: the identifier is the row number instead of a fresh uuid4()
add_pharma_event_rownumber(df, event, servicio_id, fault) ==
    IF fault \in {"read_locked", "read_error"} THEN ReadFailure(fault, df)
    ELSE WriteOutcome(fault, df, Append(df, NewRow(Uuid(Len(df) + 1), event)),
                      NewRow(Uuid(Len(df) + 1), event))

add_pharma_event(df, event, servicio_id, fault) ==
    IF fault \in {"read_locked", "read_error"} THEN ReadFailure(fault, df)
    ELSE WriteOutcome(fault, df, Append(df, NewRow(servicio_id, event)),
                      NewRow(servicio_id, event))

First(S) == CHOOSE i \in S : \A j \in S : i <= j

\* df[~mask]: the rows outside the mask, in order
RECURSIVE DropRows(_, _, _)
DropRows(df, mask, i) ==
    IF i > Len(df) THEN <<>>
    ELSE IF i \in mask THEN DropRows(df, mask, i + 1)
         ELSE <<df[i]>> \o DropRows(df, mask, i + 1)

\* df[mask].to_dict('records')
RECURSIVE KeepRows(_, _, _)
KeepRows(df, mask, i) ==
    IF i > Len(df) THEN <<>>
    ELSE IF i \in mask THEN <<df[i]>> \o KeepRows(df, mask, i + 1)
         ELSE KeepRows(df, mask, i + 1)

\* df.loc[mask, 'Estado'] = estado
SetEstado(df, mask, estado) ==
    [i \in 1..Len(df) |-> IF i \in mask THEN [df[i] EXCEPT !.Estado = estado] ELSE df[i]]

\* df['ID_Servicio'] = df['ID_Servicio'].astype(str).str.strip()
StripIdColumn(df) ==
    [i \in 1..Len(df) |-> [df[i] EXCEPT !.ID_Servicio = Strip(AsStr(df[i].ID_Servicio))]]

update_event_status(df, paciente_id, fecha, hora, estado, fault) ==
    IF fault \in {"read_locked", "read_error"} THEN ReadFailure(fault, df)
    ELSE IF df = <<>> THEN Raised("ExcelServiceError", "empty", df)
    ELSE LET Hit(r) == /\ r.Paciente_ID = paciente_id
                       /\ r.Fecha = fecha
                       /\ r.Hora = hora
             mask == {j \in 1..Len(df) : Hit(df[j])}
         IN IF mask = {} THEN Raised("ExcelServiceError", "not_found", df)
            ELSE WriteOutcome(fault, df, SetEstado(df, mask, estado),
                              SetEstado(df, mask, estado)[First(mask)])

\* mutation: the status is set without the check for an earlier cancellation
cancel_service_by_id_unchecked(df, servicio_id, fault) ==
    IF fault \in {"read_locked", "read_error"} THEN ReadFailure(fault, df)
    ELSE IF df = <<>> THEN Raised("ExcelServiceError", "empty", df)
    ELSE LET servicio_id_str == Strip(AsStr(servicio_id))
             df1 == StripIdColumn(df)
             Hit(r) == r.ID_Servicio = servicio_id_str
             mask == {j \in 1..Len(df1) : Hit(df1[j])}
         IN IF mask = {} THEN Raised("ExcelServiceError", "not_found", df)
            ELSE WriteOutcome(fault, df, SetEstado(df1, mask, Cancelado),
                              df1[First(mask)])

cancel_service_by_id(df, servicio_id, fault) ==
    IF fault \in {"read_locked", "read_error"} THEN ReadFailure(fault, df)
    ELSE IF df = <<>> THEN Raised("ExcelServiceError", "empty", df)
    ELSE LET servicio_id_str == Strip(AsStr(servicio_id))
             df1 == StripIdColumn(df)
             Hit(r) == r.ID_Servicio = servicio_id_str
             mask == {j \in 1..Len(df1) : Hit(df1[j])}
         IN IF mask = {} THEN Raised("ExcelServiceError", "not_found", df)
            ELSE IF df1[First(mask)].Estado = Cancelado
                 THEN Raised("ExcelServiceError", "already_cancelled", df)
            ELSE WriteOutcome(fault, df, SetEstado(df1, mask, Cancelado),
                              df1[First(mask)])

\* mutation: the row is marked Cancelado instead of being dropped
hard_delete_service_by_id_marking(df, servicio_id, fault) ==
    IF fault \in {"read_locked", "read_error"} THEN ReadFailure(fault, df)
    ELSE IF df = <<>> THEN Raised("ExcelServiceError", "empty", df)
    ELSE LET servicio_id_str == Strip(AsStr(servicio_id))
             df1 == StripIdColumn(df)
             Exact(r) == r.ID_Servicio = servicio_id_str
             mask == {j \in 1..Len(df1) : Exact(df1[j])}
         IN IF mask = {} THEN Raised("ExcelServiceError", "not_found", df)
            ELSE WriteOutcome(fault, df, SetEstado(df1, mask, Cancelado),
                              df1[First(mask)])

hard_delete_service_by_id(df, servicio_id, fault) ==
    IF fault \in {"read_locked", "read_error"} THEN ReadFailure(fault, df)
    ELSE IF df = <<>> THEN Raised("ExcelServiceError", "empty", df)
    ELSE LET servicio_id_str == Strip(AsStr(servicio_id))
             df1 == StripIdColumn(df)
             Exact(r) == r.ID_Servicio = servicio_id_str
             Loose(r) == RemoveSpaces(Lower(r.ID_Servicio))
                           = RemoveSpaces(Lower(servicio_id_str))
             exact == {j \in 1..Len(df1) : Exact(df1[j])}
             mask == IF exact # {} THEN exact ELSE {j \in 1..Len(df1) : Loose(df1[j])}
         IN IF mask = {} THEN Raised("ExcelServiceError", "not_found", df)
            ELSE WriteOutcome(fault, df, DropRows(df1, mask, 1), df1[First(mask)])

find_events_by_criteria(df, paciente_id, nombre, fecha, hora, medicamento, estado) ==
    LET Hit(r) ==
            /\ paciente_id \in {None, <<>>} \/ r.Paciente_ID = paciente_id
            /\ nombre \in {None, <<>>}
                 \/ RegexSearch(normalize_name(r.Nombre_Paciente), normalize_name(nombre))
            /\ fecha = NoDate \/ r.Fecha = fecha
            /\ hora = NoTime \/ r.Hora = hora
            /\ medicamento \in {None, <<>>}
                 \/ (r.Medicamento # NaN
                       /\ RegexSearch(Lower(r.Medicamento), Lower(medicamento)))
            /\ IF estado \in {None, <<>>} THEN r.Estado # Cancelado ELSE r.Estado = estado
    IN KeepRows(df, {j \in 1..Len(df) : Hit(df[j])}, 1)

get_events_by_date(df, date, incluir_cancelados) ==
    LET Hit(r) == /\ r.Fecha = date
                  /\ incluir_cancelados \/ r.Estado # Cancelado
    IN KeepRows(df, {j \in 1..Len(df) : Hit(df[j])}, 1)

get_events_by_patient(df, paciente_id, incluir_cancelados) ==
    LET Hit(r) == /\ r.Paciente_ID = paciente_id
                  /\ incluir_cancelados \/ r.Estado # Cancelado
    IN KeepRows(df, {j \in 1..Len(df) : Hit(df[j])}, 1)

get_events_by_datetime(df, fecha, hora) ==
    LET Hit(r) == r.Fecha = fecha /\ r.Hora = hora
    IN KeepRows(df, {j \in 1..Len(df) : Hit(df[j])}, 1)

\* pd.to_datetime(..., errors='coerce'): a text that is no date becomes NaT,
\* and every comparison with NaT is false
get_events_by_date_range(df, fecha_inicio, fecha_fin) ==
    LET Hit(r) == /\ ParsesAsDate(r.Fecha)
                  /\ ParsesAsDate(fecha_inicio) /\ ParsesAsDate(fecha_fin)
                  /\ Ordinal(r.Fecha) >= Ordinal(fecha_inicio)
                  /\ Ordinal(r.Fecha) <= Ordinal(fecha_fin)
    IN KeepRows(df, {j \in 1..Len(df) : Hit(df[j])}, 1)

get_all_events(df) == df

----------------------------------------------------------------------------
(* cancel_service: the pieces of the cancel-by-name flow *)

\* A chat prompt, as the flow's readers see it: whether it holds a delete
\* verb, the patient name the extraction heuristics return (None when they
\* return nothing), whether it is the literal todas / todos / all, and the
\* integers re.findall(r"\d+") returns.
Prompt(verb, name, all, nums) == [verb |-> verb, name |-> name, all |-> all, nums |-> nums]

\* mutation: every utterance counts as a delete request
is_cancel_intent_always(prompt) == prompt.verb \/ ~prompt.verb

is_cancel_intent(prompt) == prompt.verb

extract_name_for_cancel(prompt) == prompt.name

RECURSIVE Dedup(_, _, _)
Dedup(nums, max_n, out) ==
    IF nums = <<>> THEN out
    ELSE LET n == Head(nums) IN
         IF 1 <= n /\ n <= max_n /\ ~(\E k \in 1..Len(out) : out[k] = n)
         THEN Dedup(Tail(nums), max_n, Append(out, n))
         ELSE Dedup(Tail(nums), max_n, out)

\* int(x) for one character matched by \d
DigitValue(c) ==
    CASE c = "0" -> 0 [] c = "1" -> 1 [] c = "2" -> 2 [] c = "3" -> 3 [] c = "4" -> 4
      [] c = "5" -> 5 [] c = "6" -> 6 [] c = "7" -> 7 [] c = "8" -> 8 [] c = "9" -> 9
      [] OTHER -> -1

\* [int(x) for x in re.findall(r"\d+", t)]: the scan goes left to right, run
\* holds the value of the digits matched so far and open says a match is under way
RECURSIVE FindallInts(_, _, _, _)
FindallInts(t, run, open, out) ==
    IF t = <<>> THEN (IF open THEN Append(out, run) ELSE out)
    ELSE IF DigitValue(Head(t)) >= 0
    THEN FindallInts(Tail(t), (IF open THEN run * 10 ELSE 0) + DigitValue(Head(t)), TRUE, out)
    ELSE FindallInts(Tail(t), 0, FALSE, IF open THEN Append(out, run) ELSE out)

\* what parse_selection reads in a reply typed character by character
ReadReply(text) ==
    Prompt(FALSE, None,
           Lower(Strip(text)) \in {<<"t", "o", "d", "a", "s">>, <<"t", "o", "d", "o", "s">>,
                                    <<"a", "l", "l">>},
           FindallInts(Lower(Strip(text)), 0, FALSE, <<>>))

\* mutation: a number typed twice is returned twice
parse_selection_repeats(prompt, max_n) ==
    IF prompt.all THEN [i \in 1..max_n |-> i]
    ELSE SelectSeq(prompt.nums, LAMBDA n : 1 <= n /\ n <= max_n)

\* mutation: a reply that selects nothing selects the first candidate
parse_selection_first(prompt, max_n) ==
    IF prompt.all THEN [i \in 1..max_n |-> i]
    ELSE IF Dedup(prompt.nums, max_n, <<>>) = <<>> /\ max_n >= 1 THEN <<1>>
    ELSE Dedup(prompt.nums, max_n, <<>>)

parse_selection(prompt, max_n) ==
    IF prompt.all THEN [i \in 1..max_n |-> i]
    ELSE Dedup(prompt.nums, max_n, <<>>)

\* fault1 hits the first read (its exception is caught and [] returned),
\* fault2 the second (its exception is caught and the first result returned)
find_services_by_name(df, name, fault1, fault2) ==
    IF fault1 # "none" THEN <<>>
    ELSE LET cands == find_events_by_criteria(df, None, name, NoDate, NoTime, None, None)
             Hit(r) == RegexSearch(normalize_name(r.Nombre_Paciente), normalize_name(name))
             cands_all == KeepRows(df, {j \in 1..Len(df) : Hit(df[j])}, 1)
         IN IF fault2 # "none" THEN cands
            ELSE IF df = <<>> THEN cands
            ELSE IF cands_all # <<>> THEN cands_all
            ELSE cands

\* The loop of delete_services_by_ids from position i on: the table, the count
\* of deleted ids and the collected errors after the last id.
RECURSIVE DeleteLoop(_, _, _, _, _, _)
DeleteLoop(df, service_ids, faults, i, deleted, errors) ==
    IF i > Len(service_ids)
    THEN [df |-> df, deleted |-> deleted, errors |-> errors,
          total_requested |-> Len(service_ids)]
    ELSE LET sid_str == Strip(AsStr(service_ids[i]))
             r == hard_delete_service_by_id(df, sid_str, faults[i])
         IN IF sid_str = <<>>
            THEN DeleteLoop(df, service_ids, faults, i + 1, deleted,
                            Append(errors, [sid |-> sid_str, exc |-> "empty_id", why |-> "empty_id"]))
            ELSE IF r.exc = "ok"
            THEN DeleteLoop(r.df, service_ids, faults, i + 1, deleted + 1, errors)
            ELSE DeleteLoop(r.df, service_ids, faults, i + 1, deleted,
                            Append(errors, [sid |-> service_ids[i], exc |-> r.exc, why |-> r.why]))

\* mutation: the loop stops at the first identifier whose delete fails
RECURSIVE AbortingLoop(_, _, _, _, _, _)
AbortingLoop(df, service_ids, faults, i, deleted, errors) ==
    IF i > Len(service_ids)
    THEN [df |-> df, deleted |-> deleted, errors |-> errors,
          total_requested |-> Len(service_ids)]
    ELSE LET r == hard_delete_service_by_id(df, Strip(AsStr(service_ids[i])), faults[i])
         IN IF r.exc = "ok" /\ Strip(AsStr(service_ids[i])) # <<>>
            THEN AbortingLoop(r.df, service_ids, faults, i + 1, deleted + 1, errors)
            ELSE [df |-> df, deleted |-> deleted,
                  errors |-> Append(errors, [sid |-> service_ids[i], exc |-> r.exc,
                                             why |-> r.why]),
                  total_requested |-> Len(service_ids)]

delete_services_by_ids_aborting(df, service_ids, faults) ==
    AbortingLoop(df, service_ids, faults, 1, 0, <<>>)

delete_services_by_ids(df, service_ids, faults) ==
    DeleteLoop(df, service_ids, faults, 1, 0, <<>>)

\* the ids _handle_cancel_flow extracts from the selected candidates
RECURSIVE SelectedIds(_, _)
SelectedIds(cands, selected) ==
    IF selected = <<>> THEN <<>>
    ELSE LET n == Head(selected)
             sid == IF n >= 1 /\ n <= Len(cands) THEN cands[n].ID_Servicio ELSE NaN
         IN IF n < 1 \/ n > Len(cands) \/ sid = <<>> \/ sid = NaN
            THEN SelectedIds(cands, Tail(selected))
            ELSE <<Strip(AsStr(sid))>> \o SelectedIds(cands, Tail(selected))

----------------------------------------------------------------------------
(* Inputs *)

PID1 == <<"1", "0", "1", "2", "0">>
PID2 == <<"5", "2", "3", "4", "5">>
Jose == <<"J", "o", "s", "é">>
Ana == <<"A", "n", "a">>
Insulina == <<"I", "n", "s">>
Sur == <<"S", "u", "r">>
LongText == [i \in 1..101 |-> "x"]

Monday == Iso(2025, 3, 10)
Clock == <<[date |-> Monday, h |-> 9, m |-> 0, s |-> 0]>>

BaseInput ==
    [paciente_id |-> PID1, nombre |-> Ana, medicamento |-> Insulina,
     tipo_servicio |-> "Entrega Domicilio", sede |-> Sur,
     fecha |-> Iso(2025, 3, 11), hora |-> Hm(10, 0), estado |-> None]

\* inputs that pass every check at 09:00 on Monday 2025-03-10
GoodInputs ==
    {BaseInput,
     [BaseInput EXCEPT !.nombre = <<" ">> \o Ana \o <<" ">>,
                       !.tipo_servicio = " DOMICILIO ", !.fecha = Word("mañana")],
     [BaseInput EXCEPT !.estado = Entregado]}

\* inputs that fail the shape rules of PharmaEvent or the blank-name check
BadShapeInputs ==
    {[BaseInput EXCEPT !.nombre = <<" ", " ">>],
     [BaseInput EXCEPT !.nombre = <<"A", " ">>],
     [BaseInput EXCEPT !.nombre = LongText],
     [BaseInput EXCEPT !.paciente_id = <<"1", "2">>],
     [BaseInput EXCEPT !.tipo_servicio = "Express"],
     [BaseInput EXCEPT !.estado = <<"Hecho">>],
     [BaseInput EXCEPT !.paciente_id = <<"1", "2">>, !.fecha = Iso(2025, 3, 16)]}

\* inputs whose date or time is malformed or rejected by the validator
BadTimeInputs ==
    {[BaseInput EXCEPT !.hora = Hm(25, 0)],
     [BaseInput EXCEPT !.fecha = Iso(2025, 3, 16)],
     [BaseInput EXCEPT !.hora = Hm(12, 30)]}

CreateInputs == GoodInputs \cup BadShapeInputs \cup BadTimeInputs

\* Rows typed into the workbook by hand while the service runs: one with its
\* ID_Servicio cell left blank, one with an identifier typed with a leading space.
HandId == <<" ", "L", "7">>
HandRow(id) ==
    [ID_Servicio |-> id, Paciente_ID |-> PID2, Nombre_Paciente |-> Jose,
     Medicamento |-> Insulina, Tipo_Servicio |-> "Cita Presencial", Sede |-> Sur,
     Fecha |-> Iso(2025, 3, 11), Hora |-> Hm(10, 0), Estado |-> Pendiente]
HandIds == {NaN, HandId}

IdInputs ==
    {Uuid(n) : n \in 1..MaxUuid} \cup {<<" ">> \o Uuid(1), <<"L", "7">>, <<"z", "z">>}

----------------------------------------------------------------------------
(* The agent tools (excel_tools) *)

\* what an operation leaves behind besides the table: its name, the exception
\* it ended with ("ok" for none), the reason, and for the delete operations
\* the identifier asked for and the counts of the batch result
Done(op, exc, why) ==
    [op |-> op, exc |-> exc, why |-> why, deleted |-> 0, errors |-> 0, arg |-> NaN]

\* the event add_pharma_event_tool hands to PharmaEvent(...)
ToolEvent(in) ==
    [in EXCEPT !.nombre = Strip(in.nombre),
               !.fecha = IF parse_relative_date(in.fecha) # NoDate
                         THEN parse_relative_date(in.fecha) ELSE in.fecha,
               !.estado = IF in.estado = None THEN ESTADO_DEFAULT ELSE in.estado]

\* mutation: the tool skips the call of validate_appointment_datetime
CreateVerdictShapeOnly(in) ==
    IF in.nombre = <<>> \/ Strip(in.nombre) = <<>> THEN "blank_name"
    ELSE IF ~PharmaEventValid(ToolEvent(in)) THEN "ValidationError"
    ELSE "store"

\* where add_pharma_event_tool stops: "store" when it reaches the service
CreateVerdict(in) ==
    IF in.nombre = <<>> \/ Strip(in.nombre) = <<>> THEN "blank_name"
    ELSE IF validate_appointment_datetime(ToolEvent(in).fecha, in.hora) # "ok"
    THEN validate_appointment_datetime(ToolEvent(in).fecha, in.hora)
    ELSE IF ~PharmaEventValid(ToolEvent(in)) THEN "ValidationError"
    ELSE "store"

add_pharma_event_tool(in) ==
    /\ IF CreateVerdict(in) # "store"
       THEN /\ last' = Done("create", "rejected", CreateVerdict(in))
            /\ UNCHANGED <<store, uuidCount>>
       ELSE /\ Len(store) < MaxRows
            /\ uuidCount < MaxUuid
            /\ \E fault \in Faults :
                 LET r == add_pharma_event(store, PharmaEvent(ToolEvent(in)),
                                           Uuid(uuidCount + 1), fault)
                 IN /\ store' = r.df
                    /\ uuidCount' = IF r.why = "read" THEN uuidCount ELSE uuidCount + 1
                    /\ last' = Done("create", r.exc, r.why)
    /\ UNCHANGED <<now, sessionVars, fileVars>>

\* besides the outcome, last keeps the Estado the first matching record had
\* before the call
update_event_status_tool(paciente_id, fecha, hora, nuevo_estado) ==
    /\ IF ~validate_estado(nuevo_estado)
       THEN /\ last' = Done("updateStatus", "rejected", "ValidationError")
            /\ UNCHANGED store
       ELSE \E fault \in Faults :
              LET r == update_event_status(store, paciente_id, fecha, hora,
                                           nuevo_estado, fault)
                  hits == {j \in 1..Len(store) : /\ store[j].Paciente_ID = paciente_id
                                                 /\ store[j].Fecha = fecha
                                                 /\ store[j].Hora = hora}
              IN /\ store' = r.df
                 /\ last' = [Done("updateStatus", r.exc, r.why) EXCEPT
                                !.arg = IF r.exc = "ok" THEN store[First(hits)].Estado
                                        ELSE NaN]
    /\ UNCHANGED <<uuidCount, now, sessionVars, fileVars>>

cancelar_servicio_tool(servicio_id) ==
    /\ \E fault \in Faults :
         LET r == cancel_service_by_id(store, servicio_id, fault) IN
         /\ store' = r.df
         /\ last' = Done("softCancel", r.exc, r.why)
    /\ UNCHANGED <<uuidCount, now, sessionVars, fileVars>>

StoreErrors == {"ExcelLockedError", "ExcelServiceError"}

----------------------------------------------------------------------------
(* Direct calls of the store's delete operations (as the tests make them) *)

HardDelete(servicio_id) ==
    /\ \E fault \in Faults :
         LET r == hard_delete_service_by_id(store, servicio_id, fault) IN
         /\ store' = r.df
         /\ last' = [Done("hardDelete", r.exc, r.why) EXCEPT !.arg = servicio_id]
    /\ UNCHANGED <<uuidCount, now, sessionVars, fileVars>>

BatchFaults == {"none", "read_locked", "write_error"}

DeleteServicesByIds(service_ids) ==
    /\ \E faults \in [1..Len(service_ids) -> BatchFaults] :
         LET result == delete_services_by_ids(store, service_ids, faults) IN
         /\ store' = result.df
         /\ last' = [Done("batchDelete", "ok", "ok") EXCEPT
                        !.deleted = result.deleted, !.errors = Len(result.errors)]
    /\ UNCHANGED <<uuidCount, now, sessionVars, fileVars>>

----------------------------------------------------------------------------
(* The chat turn of one session (app._handle_cancel_flow) *)

ReadFaults == {"none", "read_locked", "read_error"}

\* what the turn leaves behind besides the session state and the table:
\* the branch taken and the counts of the batch result
Turn(branch, deleted, errors) ==
    [op |-> "turn", exc |-> branch, why |-> branch, deleted |-> deleted, errors |-> errors,
     arg |-> NaN]

\* mutation: the completed flow leaves the candidate list and the name in place
handle_cancel_flow_keeps_list(prompt) ==
    /\ IF cancel_flow_active
       THEN LET cands == cancel_candidates
                selected == parse_selection(prompt, Len(cands))
                service_ids == SelectedIds(cands, selected)
            IN IF cands = <<>>
               THEN /\ cancel_flow_active' = FALSE
                    /\ UNCHANGED <<cancel_candidates, cancel_patient_name, store>>
                    /\ last' = Turn("no_list", 0, 0)
               ELSE IF selected = <<>>
               THEN /\ UNCHANGED <<sessionVars, store>>
                    /\ last' = Turn("reprompt", 0, 0)
               ELSE IF service_ids = <<>>
               THEN /\ UNCHANGED <<sessionVars, store>>
                    /\ last' = Turn("no_valid_ids", 0, 0)
               ELSE \E faults \in [1..Len(service_ids) -> BatchFaults] :
                      LET result == delete_services_by_ids(store, service_ids, faults)
                      IN /\ store' = result.df
                         /\ cancel_flow_active' = FALSE
                         /\ UNCHANGED <<cancel_candidates, cancel_patient_name>>
                         /\ last' = Turn("deleted", result.deleted, Len(result.errors))
       ELSE LET name == extract_name_for_cancel(prompt) IN
            /\ UNCHANGED store
            /\ IF ~is_cancel_intent(prompt)
               THEN /\ UNCHANGED sessionVars
                    /\ last' = Turn("not_applicable", 0, 0)
               ELSE IF name = None \/ name = <<>>
               THEN /\ UNCHANGED sessionVars
                    /\ last' = Turn("ask_name", 0, 0)
               ELSE \E fault1 \in ReadFaults, fault2 \in ReadFaults :
                      LET cands == find_services_by_name(store, name, fault1, fault2)
                      IN IF cands = <<>>
                         THEN /\ UNCHANGED sessionVars
                              /\ last' = Turn("none_found", 0, 0)
                         ELSE /\ cancel_flow_active' = TRUE
                              /\ cancel_candidates' = cands
                              /\ cancel_patient_name' = name
                              /\ last' = Turn("listed", 0, 0)
    /\ UNCHANGED <<uuidCount, now, fileVars>>

handle_cancel_flow(prompt) ==
    /\ IF cancel_flow_active
       THEN LET cands == cancel_candidates
                selected == parse_selection(prompt, Len(cands))
                service_ids == SelectedIds(cands, selected)
            IN IF cands = <<>>
               THEN /\ cancel_flow_active' = FALSE
                    /\ UNCHANGED <<cancel_candidates, cancel_patient_name, store>>
                    /\ last' = Turn("no_list", 0, 0)
               ELSE IF selected = <<>>
               THEN /\ UNCHANGED <<sessionVars, store>>
                    /\ last' = Turn("reprompt", 0, 0)
               ELSE IF service_ids = <<>>
               THEN /\ UNCHANGED <<sessionVars, store>>
                    /\ last' = Turn("no_valid_ids", 0, 0)
               ELSE \E faults \in [1..Len(service_ids) -> BatchFaults] :
                      LET result == delete_services_by_ids(store, service_ids, faults)
                      IN /\ store' = result.df
                         /\ cancel_flow_active' = FALSE
                         /\ cancel_candidates' = <<>>
                         /\ cancel_patient_name' = None
                         /\ last' = Turn("deleted", result.deleted, Len(result.errors))
       ELSE LET name == extract_name_for_cancel(prompt) IN
            /\ UNCHANGED store
            /\ IF ~is_cancel_intent(prompt)
               THEN /\ UNCHANGED sessionVars
                    /\ last' = Turn("not_applicable", 0, 0)
               ELSE IF name = None \/ name = <<>>
               THEN /\ UNCHANGED sessionVars
                    /\ last' = Turn("ask_name", 0, 0)
               ELSE \E fault1 \in ReadFaults, fault2 \in ReadFaults :
                      LET cands == find_services_by_name(store, name, fault1, fault2)
                      IN IF cands = <<>>
                         THEN /\ UNCHANGED sessionVars
                              /\ last' = Turn("none_found", 0, 0)
                         ELSE /\ cancel_flow_active' = TRUE
                              /\ cancel_candidates' = cands
                              /\ cancel_patient_name' = name
                              /\ last' = Turn("listed", 0, 0)
    /\ UNCHANGED <<uuidCount, now, fileVars>>

----------------------------------------------------------------------------
(* The environment *)

\* a person adds a row to the workbook by hand
ExternalAddRow(id) ==
    /\ Len(store) < MaxRows
    /\ \A i \in 1..Len(store) : Strip(AsStr(store[i].ID_Servicio)) # Strip(AsStr(id))
    /\ store' = Append(store, HandRow(id))
    /\ last' = Done("external", "ok", "ok")
    /\ UNCHANGED <<uuidCount, now, sessionVars, fileVars>>

----------------------------------------------------------------------------
(* The application: tools of any session's agent, the chat flow of one session *)

SearchNames == {<<"j", "o", "s", "e">>, <<"A", "N", "A">>, <<"z", "z">>}
NumSeqs == UNION {[1..n -> 1..(MaxRows + 1)] : n \in 0..2}
\* utterances meant for the agent, not for the flow: "consultar servicios de
\* ANA" (no delete verb) and "agendar ... el 2025-03-02 a las 10:00" (no
\* delete verb, no name the flow would use, the digits of its date and time)
UnrelatedPrompts ==
    {Prompt(FALSE, <<"A", "N", "A">>, FALSE, <<>>),
     Prompt(FALSE, None, FALSE, <<2025, 3, 2, 10, 0>>)}

Prompts ==
    {Prompt(TRUE, n, FALSE, <<>>) : n \in SearchNames \cup {None}}
      \cup {Prompt(TRUE, <<"A", "N", "A">>, FALSE, <<1>>), Prompt(FALSE, None, TRUE, <<>>)}
      \cup {Prompt(FALSE, None, FALSE, nums) : nums \in NumSeqs}
      \cup UnrelatedPrompts

UpdateKeys == {<<PID1, Iso(2025, 3, 11), Hm(10, 0)>>, <<PID1, Iso(2025, 3, 11), Hm(16, 0)>>}
EstadoInputs == ESTADOS \cup {<<"Hecho">>}

\* the processes that share the workbook
Procs == {"p", "q"}

\* a process between calls: no table staged, no file open
IdleWriter == [pc |-> "start", df |-> <<>>, fd |-> "none", exc |-> "ok", raced |-> FALSE]

IdleFiles ==
    /\ canon = [state |-> "complete"]
    /\ tmp = [state |-> "absent", df |-> <<>>]
    /\ wpc = "idle"
    /\ writers = [p \in Procs |-> IdleWriter]

Init ==
    /\ store = <<>>
    /\ uuidCount = 0
    /\ now = Clock[1]
    /\ cancel_flow_active = FALSE
    /\ cancel_candidates = <<>>
    /\ cancel_patient_name = None
    /\ last = Done("init", "ok", "ok")
    /\ IdleFiles

Next ==
    \/ \E in \in CreateInputs : add_pharma_event_tool(in)
    \/ \E k \in UpdateKeys, e \in EstadoInputs :
          update_event_status_tool(k[1], k[2], k[3], e)
    \/ \E sid \in IdInputs : cancelar_servicio_tool(sid)
    \/ \E prompt \in Prompts : handle_cancel_flow(prompt)
    \/ \E id \in HandIds : ExternalAddRow(id)

Spec == Init /\ [][Next]_vars

\* The store alone, from an empty workbook: the three tools that write and
\* the two delete operations called directly.
BatchIds ==
    LET ids == {Uuid(n) : n \in 1..MaxUuid} \cup {<<"z", "z">>, <<" ">>}
    IN UNION {[1..n -> ids] : n \in 1..2}

NextStore ==
    \/ \E in \in CreateInputs : add_pharma_event_tool(in)
    \/ \E k \in UpdateKeys, e \in EstadoInputs :
          update_event_status_tool(k[1], k[2], k[3], e)
    \/ \E sid \in IdInputs : cancelar_servicio_tool(sid)
    \/ \E sid \in IdInputs : HardDelete(sid)
    \/ \E ids \in BatchIds : DeleteServicesByIds(ids)

SpecStore == Init /\ [][NextStore]_vars

----------------------------------------------------------------------------
(* The reads of the store: the convenience queries, the generic filter, the   *)
(* whole table, and the name search of the cancel flow, next to the tools     *)
(* that write.  last.arg keeps the rows the read returned.                    *)

QueryNames ==
    {<<"j", "o", "s", "e">>, <<"A", "N", "A">>, <<"a", "n">>, <<"a", ".", "a">>,
     <<"z", "z">>}
QueryDates == {Iso(2025, 3, 11), Iso(2025, 3, 12)}
QueryEstados == {None, Cancelado, Pendiente}

\* a read that raised, or the rows it returned
Read(op, why, fault, rows) ==
    IF fault = "none" THEN [Done(op, "ok", why) EXCEPT !.arg = rows]
    ELSE Done(op, ReadFailure(fault, <<>>).exc, "read")

GetEventsByDate(date) ==
    /\ \E fault \in ReadFaults :
         last' = Read("byDate", "default", fault, get_events_by_date(store, date, FALSE))
    /\ UNCHANGED <<store, uuidCount, now, sessionVars, fileVars>>

GetEventsByPatient(paciente_id) ==
    /\ \E fault \in ReadFaults :
         last' = Read("byPatient", "default", fault,
                      get_events_by_patient(store, paciente_id, FALSE))
    /\ UNCHANGED <<store, uuidCount, now, sessionVars, fileVars>>

GetEventsByDatetime(fecha, hora) ==
    /\ \E fault \in ReadFaults :
         last' = Read("byDateTime", "default", fault,
                      get_events_by_datetime(store, fecha, hora))
    /\ UNCHANGED <<store, uuidCount, now, sessionVars, fileVars>>

GetEventsByDateRange(fecha_inicio, fecha_fin) ==
    /\ \E fault \in ReadFaults :
         last' = Read("byDateRange", "default", fault,
                      get_events_by_date_range(store, fecha_inicio, fecha_fin))
    /\ UNCHANGED <<store, uuidCount, now, sessionVars, fileVars>>

FindEventsByCriteria(nombre, estado) ==
    /\ \E fault \in ReadFaults :
         last' = Read("criteria", IF estado \in {None, <<>>} THEN "default" ELSE "explicit",
                      fault,
                      find_events_by_criteria(store, None, nombre, NoDate, NoTime,
                                              None, estado))
    /\ UNCHANGED <<store, uuidCount, now, sessionVars, fileVars>>

GetAllEvents ==
    /\ \E fault \in ReadFaults : last' = Read("readAll", "all", fault, get_all_events(store))
    /\ UNCHANGED <<store, uuidCount, now, sessionVars, fileVars>>

\* find_services_by_name never raises: last.why tells what it logged
FindServicesByName(name) ==
    /\ \E fault1 \in ReadFaults, fault2 \in ReadFaults :
         last' = [Done("nameSearch", "ok",
                       IF fault1 # "none" THEN "search_failed"
                       ELSE IF fault2 # "none" THEN "wide_search_failed"
                       ELSE "ok")
                    EXCEPT !.arg = find_services_by_name(store, name, fault1, fault2)]
    /\ UNCHANGED <<store, uuidCount, now, sessionVars, fileVars>>

\* delete_event_tool called with the three keys and no servicio_id: it
\* searches among the records that are not cancelled and soft-cancels the
\* only one found
DeleteEventTool(paciente_id, fecha, hora) ==
    /\ \E fault1 \in ReadFaults, fault \in Faults :
         LET events == find_events_by_criteria(store, paciente_id, None, fecha, hora,
                                               None, None)
             r == cancel_service_by_id(store, events[1].ID_Servicio, fault)
         IN IF fault1 # "none"
            THEN /\ last' = Done("deleteEvent", ReadFailure(fault1, store).exc, "read")
                 /\ UNCHANGED store
            ELSE IF events = <<>>
            THEN /\ last' = Done("deleteEvent", "rejected", "not_found")
                 /\ UNCHANGED store
            ELSE IF Len(events) > 1
            THEN /\ last' = Done("deleteEvent", "rejected", "ambiguous")
                 /\ UNCHANGED store
            ELSE /\ store' = r.df
                 /\ last' = Done("deleteEvent", r.exc, r.why)
    /\ UNCHANGED <<uuidCount, now, sessionVars, fileVars>>

\* the rows populate_sample_data writes; the model keeps the first of the twelve
SampleData(n) ==
    <<[ID_Servicio |-> Uuid(n + 1), Paciente_ID |-> PID1,
       Nombre_Paciente |-> <<"R", "e", "i">>, Medicamento |-> <<"L", "o", "s">>,
       Tipo_Servicio |-> "Entrega Domicilio", Sede |-> Sur,
       Fecha |-> AddDays(now.date, 2), Hora |-> Hm(14, 0), Estado |-> Pendiente]>>

\* populate_sample_data as initialize_session_state calls it: an error of the
\* store is swallowed by the caller
PopulateSampleData ==
    /\ \E fault \in Faults :
         IF fault \in {"read_locked", "read_error"}
         THEN /\ last' = Done("populate", "ok", "swallowed")
              /\ UNCHANGED <<store, uuidCount>>
         ELSE IF store # <<>>
         THEN /\ last' = Done("populate", "ok", "skipped")
              /\ UNCHANGED <<store, uuidCount>>
         ELSE /\ uuidCount < MaxUuid
              /\ store' = WriteOutcome(fault, store, SampleData(uuidCount), NaN).df
              /\ uuidCount' = uuidCount + 1
              /\ last' = Done("populate", "ok",
                               IF fault = "none" THEN "ok" ELSE "swallowed")
    /\ UNCHANGED <<now, sessionVars, fileVars>>

NextQuery ==
    \/ \E in \in CreateInputs : add_pharma_event_tool(in)
    \/ \E k \in UpdateKeys, e \in EstadoInputs :
          update_event_status_tool(k[1], k[2], k[3], e)
    \/ \E sid \in IdInputs : cancelar_servicio_tool(sid)
    \/ \E d \in QueryDates : GetEventsByDate(d)
    \/ \E pid \in {PID1, PID2} : GetEventsByPatient(pid)
    \/ \E d \in QueryDates : GetEventsByDatetime(d, Hm(10, 0))
    \/ \E a \in QueryDates, b \in QueryDates : GetEventsByDateRange(a, b)
    \/ \E n \in QueryNames \cup {None}, e \in QueryEstados : FindEventsByCriteria(n, e)
    \/ GetAllEvents
    \/ \E n \in QueryNames : FindServicesByName(n)
    \/ \E k \in UpdateKeys : DeleteEventTool(k[1], k[2], k[3])
    \/ PopulateSampleData
    \/ \E id \in HandIds : ExternalAddRow(id)

SpecQuery == Init /\ [][NextQuery]_vars

----------------------------------------------------------------------------
(* The workbook file: the steps of _ensure_file_exists and _write_dataframe.  *)
(* A file is absent, complete, or partial (opened for writing and not yet     *)
(* closed, or left so by a write that died).  store is the table of the last  *)
(* complete canonical file.  wpc is "down" before ExcelService() is           *)
(* constructed, "idle" between operations.                                    *)

IsBlankId(id) == id = NaN \/ id = <<>>

BlankRows(df) == {i \in 1..Len(df) : IsBlankId(df[i].ID_Servicio)}

\* df.loc[mask, 'ID_Servicio'] = [str(uuid.uuid4()) ...], drawing from the n-th on
RECURSIVE Backfill(_, _, _)
Backfill(df, i, n) ==
    IF i > Len(df) THEN <<>>
    ELSE IF IsBlankId(df[i].ID_Servicio)
         THEN <<[df[i] EXCEPT !.ID_Servicio = Uuid(n + 1)]>> \o Backfill(df, i + 1, n + 1)
         ELSE <<df[i]>> \o Backfill(df, i + 1, n)

\* ExcelService.__init__: the workbook is created, or healed, by a to_excel
\* straight onto the canonical path
EnsureFileExists ==
    /\ wpc = "down"
    /\ \/ /\ canon.state = "absent"
          /\ canon' = [state |-> "partial"]
          /\ wpc' = "creating"
          /\ last' = Done("init", "ok", "creating")
       \/ /\ canon.state = "complete" /\ BlankRows(store) # {}
          /\ uuidCount + Cardinality(BlankRows(store)) <= MaxUuid
          /\ canon' = [state |-> "partial"]
          /\ wpc' = "healing"
          /\ last' = Done("init", "ok", "healing")
       \/ /\ canon.state = "complete" /\ BlankRows(store) = {}
          /\ wpc' = "idle"
          /\ last' = Done("init", "ok", "ok")
          /\ UNCHANGED canon
       \/ /\ canon.state = "partial"
          /\ last' = Done("init", "ExcelServiceError", "read")
          /\ UNCHANGED <<canon, wpc>>
    /\ UNCHANGED <<store, uuidCount, now, sessionVars, tmp, writers>>

\* the to_excel onto the canonical path ends: the file is closed, complete
FinishInPlace ==
    /\ wpc \in {"creating", "healing"}
    /\ canon' = [state |-> "complete"]
    /\ store' = IF wpc = "healing" THEN Backfill(store, 1, uuidCount) ELSE <<>>
    /\ uuidCount' = IF wpc = "healing" THEN uuidCount + Cardinality(BlankRows(store))
                     ELSE uuidCount
    /\ wpc' = "idle"
    /\ last' = Done("init", "ok", "ok")
    /\ UNCHANGED <<now, sessionVars, tmp, writers>>

\* the to_excel onto the canonical path raises after the file was opened
FailInPlace ==
    /\ wpc \in {"creating", "healing"}
    /\ wpc' = "down"
    /\ last' = Done("init", "ExcelServiceError", "write")
    /\ UNCHANGED <<store, uuidCount, now, sessionVars, canon, tmp, writers>>

\* a mutation has read the table and computed the new one; _write_dataframe
\* starts df.to_excel(temp_file)
StageWrite ==
    /\ wpc = "idle" /\ canon.state = "complete"
    /\ \/ /\ Len(store) < MaxRows /\ uuidCount < MaxUuid
          /\ tmp' = [state |-> "partial",
                     df |-> add_pharma_event(store, PharmaEvent(ToolEvent(BaseInput)),
                                             Uuid(uuidCount + 1), "none").df]
          /\ uuidCount' = uuidCount + 1
       \/ /\ \E sid \in IdInputs :
               /\ cancel_service_by_id(store, sid, "none").exc = "ok"
               /\ tmp' = [state |-> "partial",
                          df |-> cancel_service_by_id(store, sid, "none").df]
          /\ UNCHANGED uuidCount
       \/ /\ \E sid \in IdInputs :
               /\ hard_delete_service_by_id(store, sid, "none").exc = "ok"
               /\ tmp' = [state |-> "partial",
                          df |-> hard_delete_service_by_id(store, sid, "none").df]
          /\ UNCHANGED uuidCount
    /\ wpc' = "staging"
    /\ last' = Done("write", "ok", "staging")
    /\ UNCHANGED <<store, now, sessionVars, canon, writers>>

\* df.to_excel(temp_file) returns: the staging file is complete
FinishStaging ==
    /\ wpc = "staging"
    /\ tmp' = [tmp EXCEPT !.state = "complete"]
    /\ wpc' = "staged"
    /\ last' = Done("write", "ok", "staged")
    /\ UNCHANGED <<store, uuidCount, now, sessionVars, canon, writers>>

\* df.to_excel(temp_file) raises: the except branch unlinks the staging file
FailStaging ==
    /\ wpc = "staging"
    /\ tmp' = [state |-> "absent", df |-> <<>>]
    /\ wpc' = "idle"
    /\ \E exc \in StoreErrors : last' = Done("write", exc, "write")
    /\ UNCHANGED <<store, uuidCount, now, sessionVars, canon, writers>>

\* os.replace(temp_file, file_path)
Replace ==
    /\ wpc = "staged"
    /\ canon' = [state |-> "complete"]
    /\ store' = tmp.df
    /\ tmp' = [state |-> "absent", df |-> <<>>]
    /\ wpc' = "idle"
    /\ last' = Done("write", "ok", "ok")
    /\ UNCHANGED <<uuidCount, now, sessionVars, writers>>

\* os.replace raises PermissionError: the except branch unlinks the staging file
FailReplace ==
    /\ wpc = "staged"
    /\ tmp' = [state |-> "absent", df |-> <<>>]
    /\ wpc' = "idle"
    /\ last' = Done("write", "ExcelLockedError", "write")
    /\ UNCHANGED <<store, uuidCount, now, sessionVars, canon, writers>>

\* get_all_events between file operations: _read_dataframe returns the table
\* of the canonical file as it is, and writes nothing
ReadAll ==
    /\ wpc = "idle" /\ canon.state = "complete"
    /\ last' = [Done("readAll", "ok", "all") EXCEPT !.arg = get_all_events(store)]
    /\ UNCHANGED <<store, uuidCount, now, sessionVars, fileVars>>

\* a person adds a row by hand while no file operation is under way
HandEdit(id) ==
    /\ wpc \in {"down", "idle"} /\ canon.state = "complete"
    /\ ExternalAddRow(id)

\* the application stops; the next start constructs ExcelService again
Stop ==
    /\ wpc = "idle"
    /\ wpc' = "down"
    /\ last' = Done("stop", "ok", "ok")
    /\ UNCHANGED <<store, uuidCount, now, sessionVars, canon, tmp, writers>>

InitFile ==
    /\ store = <<>>
    /\ uuidCount = 0
    /\ now = Clock[1]
    /\ cancel_flow_active = FALSE
    /\ cancel_candidates = <<>>
    /\ cancel_patient_name = None
    /\ last = Done("start", "ok", "ok")
    /\ canon \in {[state |-> "absent"], [state |-> "complete"]}
    /\ tmp = [state |-> "absent", df |-> <<>>]
    /\ wpc = "down"
    /\ writers = [p \in Procs |-> IdleWriter]

NextFile ==
    \/ EnsureFileExists
    \/ FinishInPlace
    \/ FailInPlace
    \/ StageWrite
    \/ FinishStaging
    \/ FailStaging
    \/ Replace
    \/ FailReplace
    \/ \E id \in HandIds : HandEdit(id)
    \/ ReadAll
    \/ Stop

SpecFile == InitFile /\ [][NextFile]_vars

----------------------------------------------------------------------------
(* Two processes, each with its own ExcelService on the same workbook, each   *)
(* running one read-modify-write at a time.  Both compute the same temp_file  *)
(* path.  An open file handle stays on its file when the path is renamed or   *)
(* unlinked: fd says where the file a process has open is now ("temp": at the *)
(* staging path, "canon": at the canonical path, "gone": unlinked).  A file   *)
(* written by two handles at once ends with either content or with neither    *)
(* ("corrupt").                                                                *)

Other(p) == CHOOSE o \in Procs : o # p

\* the handles after the staging path was renamed onto the canonical one
\* (to = "canon") or unlinked (to = "gone")
MoveHandles(w, to) ==
    [o \in Procs |->
        [w[o] EXCEPT !.fd = IF w[o].fd = "temp" THEN to
                            ELSE IF w[o].fd = "canon" /\ to = "canon" THEN "gone"
                            ELSE w[o].fd]]

\* a mutation reads the table (_read_dataframe) and computes the new one
ReadBy(p) ==
    /\ writers[p].pc = "start"
    /\ IF canon.state # "complete"
       THEN /\ writers' = [writers EXCEPT ![p].pc = "done", ![p].exc = "ExcelServiceError"]
            /\ last' = [Done("write", "ExcelServiceError", "read") EXCEPT !.arg = p]
            /\ UNCHANGED uuidCount
       ELSE /\ \/ /\ Len(store) < MaxRows /\ uuidCount < MaxUuid
                  /\ writers' =
                       [writers EXCEPT
                          ![p] = [pc |-> "read",
                                  df |-> add_pharma_event(store, PharmaEvent(ToolEvent(BaseInput)),
                                                          Uuid(uuidCount + 1), "none").df,
                                  fd |-> "none", exc |-> "ok",
                                  raced |-> writers[Other(p)].pc \in {"start", "read"}]]
                  /\ uuidCount' = uuidCount + 1
               \/ /\ \E sid \in IdInputs :
                       /\ cancel_service_by_id(store, sid, "none").exc = "ok"
                       /\ writers' =
                            [writers EXCEPT
                               ![p] = [pc |-> "read",
                                       df |-> cancel_service_by_id(store, sid, "none").df,
                                       fd |-> "none", exc |-> "ok",
                                       raced |-> writers[Other(p)].pc \in {"start", "read"}]]
                  /\ UNCHANGED uuidCount
            /\ last' = [Done("write", "ok", "read") EXCEPT !.arg = p]
    /\ UNCHANGED <<store, now, sessionVars, canon, tmp, wpc>>

\* df.to_excel(temp_file) opens the staging path for writing: the file there
\* is created, or truncated if there is one
OpenTemp(p) ==
    /\ writers[p].pc = "read"
    /\ tmp' = [state |-> "partial", df |-> <<>>]
    /\ writers' = [writers EXCEPT ![p].pc = "open", ![p].fd = "temp"]
    /\ last' = [Done("write", "ok", "staging") EXCEPT !.arg = p]
    /\ UNCHANGED <<store, uuidCount, now, sessionVars, canon, wpc>>

\* df.to_excel(temp_file) writes the workbook through its handle and closes it
CloseTemp(p) ==
    /\ writers[p].pc = "open"
    /\ \/ /\ writers[p].fd = "temp"
          /\ \/ tmp' = [state |-> "complete", df |-> writers[p].df]
             \/ tmp.state # "partial" /\ tmp' = [state |-> "corrupt", df |-> <<>>]
          /\ UNCHANGED <<store, canon>>
       \/ /\ writers[p].fd = "canon"
          /\ \/ canon' = [state |-> "complete"] /\ store' = writers[p].df
             \/ canon.state # "partial" /\ canon' = [state |-> "corrupt"] /\ UNCHANGED store
          /\ UNCHANGED tmp
       \/ /\ writers[p].fd = "gone"
          /\ UNCHANGED <<store, canon, tmp>>
    /\ writers' = [writers EXCEPT ![p].pc = "closed", ![p].fd = "none"]
    /\ last' = [Done("write", "ok", "staged") EXCEPT !.arg = p]
    /\ UNCHANGED <<uuidCount, now, sessionVars, wpc>>

\* os.replace(temp_file, file_path): whatever file is at the staging path
\* becomes the canonical file; with no file there FileNotFoundError is raised
\* and the second except branch raises ExcelServiceError
ReplaceBy(p) ==
    /\ writers[p].pc = "closed"
    /\ IF tmp.state = "absent"
       THEN /\ writers' = [writers EXCEPT ![p].pc = "done", ![p].exc = "ExcelServiceError"]
            /\ last' = [Done("write", "ExcelServiceError", "write") EXCEPT !.arg = p]
            /\ UNCHANGED <<store, canon, tmp>>
       ELSE /\ canon' = [state |-> tmp.state]
            /\ store' = IF tmp.state = "complete" THEN tmp.df ELSE store
            /\ tmp' = [state |-> "absent", df |-> <<>>]
            /\ writers' = [MoveHandles(writers, "canon") EXCEPT ![p].pc = "done"]
            /\ last' = [Done("write", "ok", "ok") EXCEPT !.arg = p]
    /\ UNCHANGED <<uuidCount, now, sessionVars, wpc>>

\* os.replace raises PermissionError: the first except branch unlinks
\* whatever file is at the staging path and raises ExcelLockedError
FailReplaceBy(p) ==
    /\ writers[p].pc = "closed"
    /\ tmp.state # "absent"
    /\ tmp' = [state |-> "absent", df |-> <<>>]
    /\ writers' = [MoveHandles(writers, "gone") EXCEPT
                     ![p].pc = "done", ![p].exc = "ExcelLockedError"]
    /\ last' = [Done("write", "ExcelLockedError", "write") EXCEPT !.arg = p]
    /\ UNCHANGED <<store, uuidCount, now, sessionVars, canon, wpc>>

\* the call returns to its caller; the process may make another
ReturnBy(p) ==
    /\ writers[p].pc = "done"
    /\ writers' = [writers EXCEPT ![p] = IdleWriter]
    /\ last' = [Done("return", "ok", "ok") EXCEPT !.arg = p]
    /\ UNCHANGED <<store, uuidCount, now, sessionVars, canon, tmp, wpc>>

NextRace ==
    \E p \in Procs :
        \/ ReadBy(p)
        \/ OpenTemp(p)
        \/ CloseTemp(p)
        \/ ReplaceBy(p)
        \/ FailReplaceBy(p)
        \/ ReturnBy(p)

SpecRace == Init /\ [][NextRace]_vars

----------------------------------------------------------------------------
(* TimeService.validate_appointment_datetime called on its own, at several    *)
(* instants: a Monday morning on the minute and half a minute later, a Monday *)
(* late evening, a Friday, a Saturday and a Sunday.                           *)

At(f, h, m, sec) == [date |-> f, h |-> h, m |-> m, s |-> sec]

Clocks ==
    {At(Monday, 9, 0, 0), At(Monday, 9, 0, 30), At(Monday, 23, 0, 0),
     At(Iso(2025, 3, 14), 10, 30, 0), At(Iso(2025, 3, 15), 7, 0, 0),
     At(Iso(2025, 3, 16), 5, 0, 0)}

ApptDates ==
    {Iso(2025, 3, 9), Monday, Iso(2025, 3, 14), Iso(2025, 3, 15), Iso(2025, 3, 16),
     Iso(2025, 3, 17), Iso(2025, 2, 30), Word("mañana")}

ApptTimes ==
    {Hm(0, 30), Hm(7, 59), Hm(8, 0), Hm(10, 59), Hm(11, 0), Hm(11, 1), Hm(11, 59),
     Hm(12, 0), Hm(12, 30), Hm(12, 59), Hm(13, 0), Hm(17, 0), Hm(17, 1), Hm(23, 59),
     Hm(25, 0)}

ValidateAppointment(f, t) ==
    /\ last' = [Done("validate",
                      IF validate_appointment_datetime(f, t) = "ok" THEN "ok" ELSE "rejected",
                      validate_appointment_datetime(f, t))
                   EXCEPT !.arg = [fecha |-> f, hora |-> t]]
    /\ UNCHANGED <<store, uuidCount, now, sessionVars, fileVars>>

\* time passes: datetime.now() returns another instant
ClockMoves ==
    /\ \E c \in Clocks :
         /\ NowSeconds < Ordinal(c.date) * 86400 + c.h * 3600 + c.m * 60 + c.s
         /\ now' = c
    /\ last' = Done("clock", "ok", "ok")
    /\ UNCHANGED <<store, uuidCount, sessionVars, fileVars>>

InitTime ==
    /\ store = <<>>
    /\ uuidCount = 0
    /\ now \in Clocks
    /\ cancel_flow_active = FALSE
    /\ cancel_candidates = <<>>
    /\ cancel_patient_name = None
    /\ last = Done("init", "ok", "ok")
    /\ IdleFiles

NextTime ==
    \/ \E f \in ApptDates, t \in ApptTimes : ValidateAppointment(f, t)
    \/ ClockMoves

SpecTime == InitTime /\ [][NextTime]_vars

----------------------------------------------------------------------------
(* Selection replies *)

\* the characters a reply is typed with, and the replies of up to ReplyLen
\* characters together with the three literals and some longer replies
ReplyChars == {"1", "2", "3", ","}
ReplyLen == 3

Replies ==
    UNION {[1..k -> ReplyChars] : k \in 0..ReplyLen}
      \cup {<<"t", "o", "d", "a", "s">>, <<"T", "o", "d", "o", "s", " ">>, <<"a", "l", "l">>,
            <<"a", "l", "l", " ", "2">>, <<"2", " ", "y", " ", "1">>,
            <<"-", "2">>, <<"1", ".", "2">>, <<"n", "o">>, <<"0", "1">>, <<"1", "0">>,
            <<" ", "1", " ">>}

\* parse_selection(prompt, len(cands)) on one reply
ParseSelection(text, max_n) ==
    /\ last' = [Done("parse", "ok", "ok") EXCEPT
                  !.arg = [text |-> text, max_n |-> max_n,
                           out |-> parse_selection(ReadReply(text), max_n)]]
    /\ UNCHANGED <<store, uuidCount, now, sessionVars, fileVars>>

NextSelect == \E text \in Replies, max_n \in 0..MaxRows : ParseSelection(text, max_n)

SpecSelect == Init /\ [][NextSelect]_vars

----------------------------------------------------------------------------
(* Properties *)

\* the identifiers uuid4() has returned after n draws
Drawn(n) == {Uuid(k) : k \in 1..n}

\* the record carries exactly the field values of the Create input
SameFields(r, in) ==
    /\ r.Paciente_ID = in.paciente_id
    /\ r.Nombre_Paciente = in.nombre
    /\ r.Medicamento = in.medicamento
    /\ r.Tipo_Servicio = in.tipo_servicio
    /\ r.Sede = in.sede
    /\ r.Fecha = in.fecha
    /\ r.Hora = in.hora

\* C1: a Create whose inputs pass the shape rules and the Validator (every
\* input of GoodInputs names a home delivery on 2025-03-11 at 10:00), when
\* the store does not fail, keeps every earlier record unchanged and appends
\* exactly one record: its fields are the inputs as normalised at the input
\* boundary (name trimmed, service type canonical, date in ISO form), its
\* status is Pendiente when none was supplied, and its ID_Servicio differs
\* from that of every other stored record.
C1_CreateAppendsOneRecord ==
    [][\A in \in GoodInputs :
         (/\ last'.op = "create" /\ last'.exc \notin StoreErrors
          /\ add_pharma_event_tool(in)) =>
            /\ last'.exc = "ok"
            /\ Len(store') = Len(store) + 1
            /\ \A i \in 1..Len(store) : store'[i] = store[i]
            /\ LET r == store'[Len(store')] IN
                 /\ r.Paciente_ID = in.paciente_id
                 /\ r.Nombre_Paciente = Strip(in.nombre)
                 /\ r.Medicamento = in.medicamento
                 /\ r.Tipo_Servicio = "Entrega Domicilio"
                 /\ r.Sede = in.sede
                 /\ r.Fecha = Iso(2025, 3, 11)
                 /\ r.Hora = in.hora
                 /\ r.Estado = IF in.estado = None THEN Pendiente ELSE in.estado
                 /\ in \in {BaseInput, [BaseInput EXCEPT !.estado = Entregado]}
                      => SameFields(r, in)
                 /\ \A i \in 1..Len(store) : store'[i].ID_Servicio # r.ID_Servicio
      ]_vars

\* a second record was just created, with the default status, after an earlier one
C1_Witness ==
    /\ last.op = "create" /\ last.exc = "ok"
    /\ Len(store) = 2
    /\ store[2].Estado = Pendiente

\* C2: from an empty store, under create, updateStatus, softCancel and
\* hardDelete, no two stored records share an ID_Servicio, every stored
\* ID_Servicio is one the service drew, and the identifier given to a newly
\* created record is none of those drawn before, so an identifier once
\* assigned is never assigned again, even after its record was hard-deleted.
C2_ServiceIdUniqueNeverReused ==
    /\ [](/\ \A i, j \in 1..Len(store) :
               i # j => store[i].ID_Servicio # store[j].ID_Servicio
          /\ \A i \in 1..Len(store) : store[i].ID_Servicio \in Drawn(uuidCount))
    /\ [][/\ uuidCount' >= uuidCount
          /\ Len(store') > Len(store)
               => store'[Len(store')].ID_Servicio \notin Drawn(uuidCount)
        ]_vars

\* the first record is gone by a hard delete and a later record was created
C2_Witness ==
    /\ uuidCount = 2
    /\ Len(store) = 1
    /\ store[1].ID_Servicio = Uuid(2)
    /\ last.op = "create" /\ last.exc = "ok"

\* C3: the canonical workbook is never half-written, and no staging file is
\* left behind once a write has ended, whether it succeeded or failed.
C3_CanonicalNeverHalfWritten ==
    /\ canon.state # "partial"
    /\ wpc \in {"down", "idle"} => tmp.state = "absent"

\* what holds of the staged writes alone: outside the construction of the
\* service the canonical file changes only by the replace from a complete
\* staging file, and no staging file outlives its write
C3_StagedWritesAreAtomic ==
    [][/\ (canon' # canon /\ wpc \notin {"down", "creating", "healing"})
            => /\ wpc = "staged" /\ tmp.state = "complete"
               /\ canon'.state = "complete" /\ store' = tmp.df
       /\ wpc' \in {"down", "idle"} => tmp'.state = "absent"
      ]_vars

\* the positions of the records whose ID_Servicio is the given one, trimmed
WithId(df, sid) == {i \in 1..Len(df) : Strip(AsStr(df[i].ID_Servicio)) = Strip(AsStr(sid))}

\* C4: a successful softCancel keeps the number of records and changes
\* nothing but the Estado of the record with that identifier, which becomes
\* Cancelado: every other field of that record and every field of every
\* other record, its ID_Servicio included, is as before.
C4_SoftCancelChangesOnlyStatus ==
    [][\A sid \in IdInputs :
         (/\ last'.op = "softCancel" /\ last'.exc = "ok"
          /\ cancelar_servicio_tool(sid)) =>
            /\ Len(store') = Len(store)
            /\ WithId(store, sid) # {}
            /\ \A i \in 1..Len(store) :
                 store'[i] = IF i \in WithId(store, sid)
                             THEN [store[i] EXCEPT !.Estado = Cancelado]
                             ELSE store[i]
      ]_vars

\* C5: softCancel of an identifier no stored record has ends with the
\* not-found error, and softCancel of a record whose Estado is already
\* Cancelado ends with the already-cancelled error; in both cases the table
\* is the same before and after the call.  (A call whose first read of the
\* workbook fails ends with the store's error instead.)
C5_SoftCancelFailuresWriteNothing ==
    [][\A sid \in IdInputs :
         (/\ last'.op = "softCancel" /\ last'.why # "read"
          /\ cancelar_servicio_tool(sid)) =>
            /\ WithId(store, sid) = {}
                 => /\ last'.exc = "ExcelServiceError"
                    /\ last'.why \in {"not_found", "empty"}
                    /\ store' = store
            /\ (\E i \in WithId(store, sid) : store[i].Estado = Cancelado)
                 => /\ last'.exc = "ExcelServiceError"
                    /\ last'.why = "already_cancelled"
                    /\ store' = store
      ]_vars

\* a softCancel has just failed on a record that was already Cancelado
C5_Witness ==
    /\ last.op = "softCancel" /\ last.why = "already_cancelled"
    /\ \E i \in 1..Len(store) : store[i].Estado = Cancelado

\* C6: for every stored ID_Servicio a hardDelete succeeds and leaves no
\* record with that identifier; right after a successful hardDelete the same
\* call again ends with the not-found error and leaves the table unchanged;
\* and hardDelete of an identifier no record carries (on an empty table too)
\* ends with an error.
C6_HardDeleteTwice ==
    /\ \A i \in 1..Len(store) :
         LET first == hard_delete_service_by_id(store, store[i].ID_Servicio, "none")
             second == hard_delete_service_by_id(first.df, store[i].ID_Servicio, "none")
         IN /\ first.exc = "ok"
            /\ WithId(first.df, store[i].ID_Servicio) = {}
            /\ Len(first.df) = Len(store) - 1
            /\ second.exc = "ExcelServiceError"
            /\ second.why \in {"not_found", "empty"}
            /\ second.df = first.df
    /\ (last.op = "hardDelete" /\ last.exc = "ok") =>
         LET second == hard_delete_service_by_id(store, last.arg, "none")
         IN /\ WithId(store, last.arg) = {}
            /\ second.exc = "ExcelServiceError"
            /\ second.why \in {"not_found", "empty"}
            /\ second.df = store
    /\ \A sid \in IdInputs :
         WithId(store, sid) = {} =>
            /\ hard_delete_service_by_id(store, sid, "none").exc = "ExcelServiceError"
            /\ hard_delete_service_by_id(store, sid, "none").df = store

\* a hardDelete has just removed one of two records
C6_Witness ==
    /\ last.op = "hardDelete" /\ last.exc = "ok"
    /\ last.arg \in Drawn(uuidCount)
    /\ Len(store) = 1

\* the indices a reply selects from a list of n candidates
Chosen(prompt, n) ==
    {c \in 1..n : prompt.all \/ \E k \in 1..Len(prompt.nums) : prompt.nums[k] = c}

\* C7: after a valid selection over the candidate list, when no delete
\* reported an error, the records removed are exactly those whose ID_Servicio
\* is that of a selected candidate; every other stored record is still there
\* with all its fields unchanged.
C7_SelectionRemovesExactlySelected ==
    [][\A prompt \in Prompts :
         (/\ last'.op = "turn" /\ last'.exc = "deleted" /\ last'.errors = 0
          /\ handle_cancel_flow(prompt)) =>
            LET ids == {cancel_candidates[c].ID_Servicio :
                          c \in Chosen(prompt, Len(cancel_candidates))}
                Kept(r) == r.ID_Servicio \notin ids
            IN store' = SelectSeq(store, Kept)
      ]_vars

\* C8: from the selection state (flow active, candidates listed), a reply
\* that parses to a valid selection ends the turn with the flow inactive and
\* the candidate list empty, whatever the deletes did.
C8_ValidSelectionEndsIdle ==
    [][\A prompt \in Prompts :
         (/\ cancel_flow_active /\ cancel_candidates # <<>>
          /\ Chosen(prompt, Len(cancel_candidates)) # {}
          /\ last'.op = "turn"
          /\ handle_cancel_flow(prompt)) =>
            /\ cancel_flow_active' = FALSE
            /\ cancel_candidates' = <<>>
      ]_vars

\* C9: a batch delete attempts every identifier of its list whatever happened
\* to the earlier ones: an identifier that is stored and whose own delete
\* meets no store failure is gone afterwards, an identifier that is not
\* stored (or is gone already) yields an error of its own, and the count of
\* deleted identifiers plus the number of collected errors equals the number
\* of identifiers requested.
C9_BatchDeleteAttemptsEveryId ==
    \A ids \in BatchIds : \A faults \in [1..Len(ids) -> BatchFaults] :
        LET result == delete_services_by_ids(store, ids, faults) IN
        /\ result.deleted + Len(result.errors) = Len(ids)
        /\ result.total_requested = Len(ids)
        /\ \A i \in 1..Len(ids) :
             /\ (faults[i] = "none" /\ WithId(store, ids[i]) # {})
                  => WithId(result.df, ids[i]) = {}
             /\ (WithId(store, ids[i]) = {} \/ \E j \in 1..(i - 1) : ids[j] = ids[i])
                  => \E k \in 1..Len(result.errors) :
                        Strip(AsStr(result.errors[k].sid)) = Strip(AsStr(ids[i]))
        /\ Len(result.df) >= Len(store) - result.deleted

\* a batch has just ended with one identifier deleted and one error collected
C9_Witness ==
    /\ last.op = "batchDelete"
    /\ last.deleted = 1 /\ last.errors = 1
    /\ uuidCount = 2 /\ Len(store) = 1

\* C10: a Create whose input fails a shape rule (length, enum, blank name,
\* malformed time) or whose date and time the Validator rejects writes
\* nothing: the table is the same before and after the call, and no stored
\* record carries the input's field values.
C10_RejectedCreateWritesNothing ==
    [][\A in \in BadShapeInputs \cup BadTimeInputs :
         (last'.op = "create" /\ add_pharma_event_tool(in)) =>
            /\ last'.exc = "rejected"
            /\ store' = store
            /\ uuidCount' = uuidCount
            /\ \A i \in 1..Len(store') :
                 ~(SameFields(store'[i], in) /\ store'[i].Estado = in.estado)
      ]_vars

\* a Create has just been rejected while records were stored
C10_Witness ==
    /\ last.op = "create" /\ last.exc = "rejected"
    /\ last.why \in {"ValidationError", "sunday", "lunch"}
    /\ Len(store) >= 1

\* C11: a Create input that fails the shape rules (a length, the service
\* type, the status, the date or time format) is rejected with the shape
\* ValidationError, the Validator not having produced the rejection, also
\* when the Validator would reject the same input.
C11_ShapeCheckedBeforeValidator ==
    [][\A in \in CreateInputs :
         (/\ last'.op = "create"
          /\ Strip(in.nombre) # <<>>
          /\ ~PharmaEventValid(ToolEvent(in))
          /\ add_pharma_event_tool(in)) =>
            /\ last'.exc = "rejected"
            /\ last'.why = "ValidationError"
            /\ store' = store
      ]_vars

\* the date and time of the last call of the validator
Asked == last.arg

\* the checks of the appointment rules, each stated on its own
Malformed(f, t) == ~(ParsesAsDate(f) /\ t.h \in 0..23 /\ t.m \in 0..59)
PastDate(f) == Ordinal(f) < Ordinal(now.date)
ShortLead(f, t) ==
    /\ f = now.date
    /\ (t.h * 3600 + t.m * 60) - (now.h * 3600 + now.m * 60 + now.s) < 2 * 3600
IsSunday(f) == Weekday(f) = 6
InLunch(f, t) == Weekday(f) \in 0..4 /\ t.h = 12
OutsideWindow(f, t) ==
    IF Weekday(f) = 5 THEN ~(8 * 60 <= Minutes(t) /\ Minutes(t) <= 12 * 60)
    ELSE ~(8 * 60 <= Minutes(t) /\ Minutes(t) <= 17 * 60)

\* C12: whatever the date, the time and the current instant, the validator
\* answers with the first failing check in the order malformed input, past
\* date, lead time below two hours (same-day only), Sunday, lunch window
\* (Monday to Friday), outside the day's window (08:00-17:00 Monday to Friday,
\* 08:00-12:00 Saturday, both ends included); it accepts exactly when none
\* fails, and a Sunday is never accepted.
C12_FirstFailingCheck ==
    last.op = "validate" =>
        /\ last.why =
              (IF Malformed(Asked.fecha, Asked.hora) THEN "malformed"
               ELSE IF PastDate(Asked.fecha) THEN "past_date"
               ELSE IF ShortLead(Asked.fecha, Asked.hora) THEN "lead_time"
               ELSE IF IsSunday(Asked.fecha) THEN "sunday"
               ELSE IF InLunch(Asked.fecha, Asked.hora) THEN "lunch"
               ELSE IF OutsideWindow(Asked.fecha, Asked.hora) THEN "outside_hours"
               ELSE "ok")
        /\ (last.exc = "ok") = (last.why = "ok")
        /\ (ParsesAsDate(Asked.fecha) /\ IsSunday(Asked.fecha)) => last.exc = "rejected"

\* a Sunday that is neither past nor today was rejected for being a Sunday
C12_Witness ==
    /\ last.op = "validate" /\ last.why = "sunday"
    /\ Asked.fecha = Iso(2025, 3, 16) /\ Asked.hora = Hm(10, 59)

\* C13 as stated: on every Monday-to-Friday date a time in [12:00, 13:00) is
\* rejected with the lunch reason.
C13_LunchReasonOnEveryWeekday ==
    (/\ last.op = "validate"
     /\ ParsesAsDate(Asked.fecha) /\ Weekday(Asked.fecha) \in 0..4
     /\ Asked.hora.h = 12 /\ Asked.hora.m \in 0..59)
      => last.why = "lunch"

\* C13: on every Monday-to-Friday date a time in [12:00, 13:00) is rejected;
\* the reason is the lunch closure unless the date is past or the time is
\* less than two hours ahead on the current date, and then the reason is
\* that earlier check's.
C13_LunchRejectedOnWeekdays ==
    (/\ last.op = "validate"
     /\ ParsesAsDate(Asked.fecha) /\ Weekday(Asked.fecha) \in 0..4
     /\ Asked.hora.h = 12 /\ Asked.hora.m \in 0..59)
      => /\ last.exc = "rejected"
         /\ last.why = (IF PastDate(Asked.fecha) THEN "past_date"
                        ELSE IF ShortLead(Asked.fecha, Asked.hora) THEN "lead_time"
                        ELSE "lunch")

\* 12:00 on the current Monday, three hours ahead, was rejected for lunch
C13_Witness ==
    /\ last.op = "validate" /\ last.why = "lunch"
    /\ Asked.fecha = now.date /\ Asked.hora = Hm(12, 0)

\* C14: on the current date a time less than two hours after the current
\* instant is rejected for insufficient lead time; a time two hours or more
\* after it is accepted when the day is not a Sunday, the time is outside
\* the lunch window and within the day's opening hours.
C14_SameDayLeadTime ==
    (/\ last.op = "validate"
     /\ Asked.fecha = now.date
     /\ Asked.hora.h \in 0..23 /\ Asked.hora.m \in 0..59)
      => LET ahead == (Asked.hora.h * 3600 + Asked.hora.m * 60)
                        - (now.h * 3600 + now.m * 60 + now.s)
         IN /\ ahead < 2 * 3600 => last.why = "lead_time"
            /\ (/\ ahead >= 2 * 3600
                /\ ~IsSunday(Asked.fecha)
                /\ ~(HORARIO_ALMUERZO_INICIO <= Minutes(Asked.hora)
                       /\ Minutes(Asked.hora) < HORARIO_ALMUERZO_FIN)
                /\ ~OutsideWindow(Asked.fecha, Asked.hora))
                 => last.exc = "ok"

\* at 09:00:00 the appointment at 11:00 of the same day was accepted
C14_Witness ==
    /\ last.op = "validate" /\ last.exc = "ok"
    /\ now = At(Monday, 9, 0, 0)
    /\ Asked.fecha = Monday /\ Asked.hora = Hm(11, 0)

\* at 09:00:30 the appointment at 11:00 of the same day was rejected
C14_WitnessHalfMinute ==
    /\ last.op = "validate" /\ last.why = "lead_time"
    /\ now = At(Monday, 9, 0, 30)
    /\ Asked.fecha = Monday /\ Asked.hora = Hm(11, 0)

\* the reads that take no status filter, or were given none
DefaultReads == {"byDate", "byPatient", "byDateTime", "byDateRange", "criteria"}

\* C15: a read of the query engine issued without a status filter returns no
\* record whose Estado is Cancelado.
C15_DefaultReadsExcludeCancelled ==
    (last.op \in DefaultReads /\ last.exc = "ok" /\ last.why = "default")
      => \A i \in 1..Len(last.arg) : last.arg[i].Estado # Cancelado

\* needle is a substring of hay
Contains(hay, needle) ==
    \E i \in 0..(Len(hay) - Len(needle)) :
        SubSeq(hay, i + 1, i + Len(needle)) = needle

\* the stored records whose normalized name holds the normalized query
NameMatches(df, name) ==
    KeepRows(df, {j \in 1..Len(df) :
                    Contains(normalize_name(df[j].Nombre_Paciente), normalize_name(name))}, 1)

\* C16: the name search of the cancel flow, when no read fails, returns
\* exactly the stored records whose name, accents removed and lower-cased,
\* contains the likewise-normalized query as a substring, whatever their
\* Estado.
C16_NameSearchIsSubstringMatch ==
    [][\A name \in QueryNames :
         (/\ last'.op = "nameSearch" /\ last'.why = "ok"
          /\ FindServicesByName(name)) =>
            last'.arg = NameMatches(store, name)
      ]_vars

\* the positions of the records matching the three keys of updateStatus
Keyed(df, k) ==
    {j \in 1..Len(df) : df[j].Paciente_ID = k[1] /\ df[j].Fecha = k[2] /\ df[j].Hora = k[3]}

\* C17: updateStatus ends with the not-found error and leaves the table as
\* it was when no record matches the three keys; otherwise it sets the
\* Estado of the first matching record and of no other record.
C17_UpdateStatusChangesFirstMatchOnly ==
    [][\A k \in UpdateKeys, e \in ESTADOS :
         (/\ last'.op = "updateStatus" /\ last'.why \notin {"read", "write"}
          /\ update_event_status_tool(k[1], k[2], k[3], e)) =>
            IF Keyed(store, k) = {}
            THEN /\ last'.exc = "ExcelServiceError"
                 /\ last'.why \in {"not_found", "empty"}
                 /\ store' = store
            ELSE /\ last'.exc = "ok"
                 /\ store' = [i \in 1..Len(store) |->
                                IF i = First(Keyed(store, k))
                                THEN [store[i] EXCEPT !.Estado = e] ELSE store[i]]
      ]_vars

\* C18: under create, updateStatus and softCancel (and the deletes) every
\* stored Estado is Pendiente, Entregado or Cancelado; a create or an
\* updateStatus that names another status is rejected and leaves the table
\* as it was; and an updateStatus that names one of the three and finds its
\* record succeeds whatever the record's Estado was, a Cancelado one included.
C18_StatusStaysInEnum ==
    /\ [](\A i \in 1..Len(store) : store[i].Estado \in ESTADOS)
    /\ [][/\ \A k \in UpdateKeys, e \in EstadoInputs \ ESTADOS :
               (last'.op = "updateStatus" /\ update_event_status_tool(k[1], k[2], k[3], e))
                 => (last'.exc = "rejected" /\ store' = store)
          /\ \A in \in CreateInputs :
               (/\ last'.op = "create"
                /\ in.estado \notin ESTADOS \cup {None}
                /\ add_pharma_event_tool(in))
                 => (last'.exc = "rejected" /\ store' = store)
          /\ \A k \in UpdateKeys, e \in ESTADOS :
               (/\ last'.op = "updateStatus" /\ last'.why \notin {"read", "write"}
                /\ Keyed(store, k) # {}
                /\ update_event_status_tool(k[1], k[2], k[3], e))
                 => /\ last'.exc = "ok"
                    /\ last'.arg = store[First(Keyed(store, k))].Estado
                    /\ store'[First(Keyed(store, k))].Estado = e
         ]_vars

\* an updateStatus has just moved a Cancelado record back to Pendiente
C18_Witness ==
    /\ last.op = "updateStatus" /\ last.exc = "ok" /\ last.arg = Cancelado
    /\ Len(store) = 1 /\ store[1].Estado = Pendiente

\* C19: get_all_events returns no record whose ID_Servicio is missing or
\* blank.
C19_ReadAllReturnsNoBlankId ==
    last.op = "readAll" =>
        \A i \in 1..Len(last.arg) : ~IsBlankId(last.arg[i].ID_Servicio)

\* C20: the cancel flow answers that it found no records only when no stored
\* record matches the name: a read of the store that failed during the
\* search is not reported as an empty result.
C20_SearchFailureIsNotNoneFound ==
    [][\A prompt \in Prompts :
         (/\ last'.op = "turn" /\ last'.exc = "none_found"
          /\ handle_cancel_flow(prompt)) =>
            find_services_by_name(store, prompt.name, "none", "none") = <<>>
      ]_vars

\* C22: an utterance that is no reply to the selection prompt (a query, a
\* scheduling request) never removes a record, whatever candidate list an
\* earlier turn left behind.
C22_UnrelatedUtteranceDeletesNothing ==
    [][\A prompt \in UnrelatedPrompts :
         (last'.op = "turn" /\ handle_cancel_flow(prompt)) => store' = store
      ]_vars

\* C23: a turn that starts with the flow inactive leaves the table as it was;
\* it activates the flow only when the utterance has a delete verb, a name is
\* extracted and the name search returns a record, and then the candidate
\* list is a result of that search on the table; otherwise the flow stays
\* inactive with an empty candidate list.
C23_IdleTurn ==
    [][\A prompt \in Prompts :
         (/\ ~cancel_flow_active
          /\ last'.op = "turn"
          /\ handle_cancel_flow(prompt)) =>
            /\ store' = store
            /\ IF cancel_flow_active'
               THEN /\ prompt.verb
                    /\ prompt.name \notin {None, <<>>}
                    /\ cancel_candidates' # <<>>
                    /\ \E f1 \in ReadFaults, f2 \in ReadFaults :
                         cancel_candidates' = find_services_by_name(store, prompt.name, f1, f2)
                    /\ cancel_patient_name' = prompt.name
               ELSE /\ cancel_candidates' = <<>>
                    /\ cancel_patient_name' = None
                    /\ last'.exc \in {"not_applicable", "ask_name", "none_found"}
                    /\ (last'.exc = "not_applicable") = ~prompt.verb
                    /\ (last'.exc = "ask_name")
                         = (prompt.verb /\ prompt.name \in {None, <<>>})
      ]_vars

\* the flow has just listed two candidates
C23_Witness ==
    /\ last.op = "turn" /\ last.exc = "listed"
    /\ cancel_flow_active /\ Len(cancel_candidates) = 2

\* C24: with the flow active, a reply from which no selection is parsed
\* leaves the flow active with the same candidate list and name, and the
\* table as it was.
C24_NoSelectionReprompts ==
    [][\A prompt \in Prompts :
         (/\ cancel_flow_active
          /\ ~prompt.all
          /\ \A k \in 1..Len(prompt.nums) :
               prompt.nums[k] < 1 \/ prompt.nums[k] > Len(cancel_candidates)
          /\ last'.op = "turn"
          /\ handle_cancel_flow(prompt)) =>
            /\ cancel_flow_active'
            /\ cancel_candidates' = cancel_candidates
            /\ cancel_patient_name' = cancel_patient_name
            /\ store' = store
      ]_vars

\* the flow has just asked again, its list still in place
C24_Witness ==
    /\ last.op = "turn" /\ last.exc = "reprompt"
    /\ cancel_flow_active /\ cancel_candidates # <<>>

\* C28: at the end of every turn the flow is active exactly when the
\* candidate list is non-empty, and the patient name is set exactly when the
\* flow is active.
C28_FlagListAndNameAgree ==
    /\ cancel_flow_active = (cancel_candidates # <<>>)
    /\ cancel_flow_active = (cancel_patient_name # None)

\* a selection has just completed the flow and removed a record
C28_Witness ==
    /\ last.op = "turn" /\ last.exc = "deleted" /\ last.deleted = 1
    /\ ~cancel_flow_active /\ cancel_candidates = <<>> /\ cancel_patient_name = None

\* C27: the selection step deletes by identifier on the table as it is at
\* that moment: a record of the current table that is not selected, whoever
\* added or changed it since the listing, is still stored with the same
\* fields after the turn, and every selected candidate that is no longer
\* stored counts as an error of the turn.
C27_SelectionActsOnCurrentStore ==
    [][\A prompt \in Prompts :
         (/\ cancel_flow_active
          /\ last'.op = "turn" /\ last'.exc = "deleted"
          /\ handle_cancel_flow(prompt)) =>
            LET ids == SelectedIds(cancel_candidates,
                                   parse_selection(prompt, Len(cancel_candidates)))
                Selected(r) == \E k \in 1..Len(ids) : ids[k] = Strip(AsStr(r.ID_Servicio))
            IN /\ \A i \in 1..Len(store) :
                    ~Selected(store[i]) => \E j \in 1..Len(store') : store'[j] = store[i]
               /\ last'.errors >= Cardinality({k \in 1..Len(ids) : WithId(store, ids[k]) = {}})
      ]_vars

\* C30: a hardDelete that succeeds removes exactly one record and leaves the
\* others, in order, with every field as before; when a record carries the
\* trimmed identifier, the record removed is one that carries it.
C30_HardDeleteRemovesExactlyOne ==
    \A sid \in IdInputs :
        LET r == hard_delete_service_by_id(store, sid, "none") IN
        r.exc = "ok" =>
            /\ Len(r.df) = Len(store) - 1
            /\ \E i \in 1..Len(store) :
                 /\ r.df = DropRows(store, {i}, 1)
                 /\ WithId(store, sid) # {} => i \in WithId(store, sid)

\* the identifiers stored in a table
Ids(df) == {df[i].ID_Servicio : i \in 1..Len(df)}

\* the operations other than the selection step of the cancel flow
NonDeleting ==
    {"create", "updateStatus", "softCancel", "deleteEvent", "populate", "byDate",
     "byPatient", "byDateTime", "byDateRange", "criteria", "readAll", "nameSearch"}

\* C21: create, the reads, updateStatus, softCancel, the deprecated delete
\* tool and the sample-data population remove no record: every ID_Servicio
\* stored before such an operation is stored after it.
C21_OnlySelectionRemoves ==
    [][last'.op \in NonDeleting => Ids(store) \subseteq Ids(store')]_vars

\* the maximal runs of digits of a text, as pairs of positions
DigitRuns(t) ==
    {r \in (1..Len(t)) \X (1..Len(t)) :
        /\ r[1] <= r[2]
        /\ \A i \in r[1]..r[2] : DigitValue(t[i]) >= 0
        /\ r[1] = 1 \/ DigitValue(t[r[1] - 1]) < 0
        /\ r[2] = Len(t) \/ DigitValue(t[r[2] + 1]) < 0}

\* the decimal value of the digits at positions a..b
RECURSIVE DecimalValue(_, _, _)
DecimalValue(t, a, b) ==
    IF a > b THEN 0 ELSE DecimalValue(t, a, b - 1) * 10 + DigitValue(t[b])

\* where the integer v first appears in the text
FirstAt(t, v) ==
    CHOOSE a \in 1..Len(t) :
        /\ \E r \in DigitRuns(t) : r[1] = a /\ DecimalValue(t, r[1], r[2]) = v
        /\ \A r \in DigitRuns(t) : DecimalValue(t, r[1], r[2]) = v => a <= r[1]

\* C25: over n candidates the literal all / todas / todos yields 1..n in
\* ascending order; any other reply yields the integers written in it that lie
\* in 1..n, each once, in the order in which they first appear, and nothing
\* else.
C25_ParseSelection ==
    last.op = "parse" =>
        LET t == Lower(Strip(last.arg.text))
            n == last.arg.max_n
            out == last.arg.out
            InRange == {v \in 1..n : \E r \in DigitRuns(t) : DecimalValue(t, r[1], r[2]) = v}
        IN IF t \in {<<"t", "o", "d", "a", "s">>, <<"t", "o", "d", "o", "s">>, <<"a", "l", "l">>}
           THEN out = [i \in 1..n |-> i]
           ELSE /\ {out[k] : k \in 1..Len(out)} = InRange
                /\ Len(out) = Cardinality(InRange)
                /\ \A j, k \in 1..Len(out) : j < k => FirstAt(t, out[j]) < FirstAt(t, out[k])

\* the reply "2,1" over two candidates gave 2 then 1
C25_Witness ==
    /\ last.op = "parse"
    /\ last.arg.text = <<"2", ",", "1">>
    /\ last.arg.max_n = 2
    /\ last.arg.out = <<2, 1>>

\* C29: a write that reports success has installed exactly the table its
\* process staged, a write that reports an error has installed nothing, and
\* the canonical file changes in no other way.
C29_WriteInstallsOwnTableOrNothing ==
    [][\A p \in Procs :
         /\ (writers[p].pc = "closed" /\ writers'[p].pc = "done" /\ writers'[p].exc = "ok")
               => (canon'.state = "complete" /\ store' = writers[p].df)
         /\ (writers[p].pc = "closed" /\ writers'[p].pc = "done" /\ writers'[p].exc # "ok")
               => (canon' = canon /\ store' = store)
         /\ (writers[p].pc = "open" /\ writers'[p].pc = "closed")
               => (canon' = canon /\ store' = store)]_vars

\* C26: when both processes have read before either began to write and both
\* writes have ended without the workbook being reported locked, the
\* canonical file is a complete workbook holding the full table of one of the
\* two writers.
C26_LastWriterWins ==
    (/\ \A p \in Procs : writers[p].pc = "done" /\ writers[p].raced
                          /\ writers[p].exc # "ExcelLockedError")
        => /\ canon.state = "complete"
           /\ \E p \in Procs : store = writers[p].df

====
